---------------------------- MODULE Spec2Model ----------------------------
(***************************************************************************)
(* Model of the BAD ("Basic Analysis of Data") backend:                    *)
(*   backend/services/cleaner.py   load_and_clean                          *)
(*   backend/services/analyzer.py  analyze_dataframe                       *)
(*   backend/main.py               upload                                  *)
(*                                                                         *)
(* Text is a sequence of one-character strings, so that strip(), lower()   *)
(* and endswith() are computed and not assumed.  A cell of a table is a    *)
(* record [k, v]: missing (NaN), a number, or a text.  The library calls   *)
(* (pandas read_csv, astype(str), dropna, drop_duplicates, value_counts)   *)
(* are modelled by what pandas does on an object-dtype build (pandas 1.x / *)
(* 2.x), which is the build the code's test `dtype == "object"` is written *)
(* for.  Numbers of the model are non-negative integers.                   *)
(***************************************************************************)
EXTENDS Integers, Sequences, FiniteSets, TLC

VARIABLES
    file,       \* the file handed to load_and_clean: name and content
    pc,         \* position of the request: "new", "cleaned", "raised", ...
    reads,      \* the parser calls attempted so far, in order
    df,         \* the table returned by load_and_clean (NoTable: none)
    raised,     \* the exception that ended the call ("": none)
    insights,   \* the list returned by analyze_dataframe
    df2,        \* the table of a second load_and_clean pass over df saved as CSV
    raised2,    \* the exception of the second pass ("": none)
    dataDir,    \* upload: the files in DATA_DIR
    history,    \* upload: the committed UploadedFile records (their uids)
    request,    \* upload: who sent the last request and what failed under it
    response,   \* upload: the response of the last request
    uid         \* upload: the number of requests served so far

vars == <<file, pc, reads, df, raised, insights, df2, raised2,
          dataDir, history, request, response, uid>>

---------------------------------------------------------------------------
(* Bounds *)

\* rows of an uploaded file
MaxRows == 3

\* rows of a one-column text table handed to analyze_dataframe
MaxLen == 7

\* rows of a one-column numeric table handed to analyze_dataframe
MaxNums == 5

\* upload requests served
MaxUploads == 3

---------------------------------------------------------------------------
(* Text *)

\* the characters str.strip() removes (of the model's alphabet)
Whitespace == {" "}

RECURSIVE LStrip(_)
LStrip(s) ==
    IF s # <<>> /\ Head(s) \in Whitespace THEN LStrip(Tail(s)) ELSE s

RECURSIVE RStrip(_)
RStrip(s) ==
    IF s # <<>> /\ s[Len(s)] \in Whitespace
    THEN RStrip(SubSeq(s, 1, Len(s) - 1))
    ELSE s

\* str.strip()
Strip(s) == RStrip(LStrip(s))

\* str.lower(), on the letters file names of the model use
LowerChar(c) ==
    CASE c = "C" -> "c"
      [] c = "S" -> "s"
      [] c = "V" -> "v"
      [] c = "X" -> "x"
      [] c = "L" -> "l"
      [] c = "D" -> "d"
      [] OTHER -> c

\* a slip: the file name compared as given, .lower() left out
NoLower(s) == s

Lower(s) == [i \in 1..Len(s) |-> LowerChar(s[i])]

\* str.endswith(suffix)
EndsWith(s, suffix) ==
    /\ Len(s) >= Len(suffix)
    /\ SubSeq(s, Len(s) - Len(suffix) + 1, Len(s)) = suffix

CsvSuffix == <<".", "c", "s", "v">>
XlsxSuffix == <<".", "x", "l", "s", "x">>

---------------------------------------------------------------------------
(* Cells and numbers *)

NA == [k |-> "na", v |-> <<>>]
Num(n) == [k |-> "num", v |-> <<n>>]
Str(s) == [k |-> "str", v |-> s]

\* Series.isna() on one cell
IsNA(c) == c.k = "na"

DigitChars == <<"0", "1", "2", "3", "4", "5", "6", "7", "8", "9">>
DigitSet == {DigitChars[i] : i \in 1..Len(DigitChars)}
DigitVal(c) == (CHOOSE i \in 1..Len(DigitChars) : DigitChars[i] = c) - 1

\* str(n) of a non-negative integer
RECURSIVE Digits(_)
Digits(n) ==
    IF n < 10 THEN <<DigitChars[n + 1]>>
    ELSE Digits(n \div 10) \o <<DigitChars[(n % 10) + 1]>>

RECURSIVE DigitsValue(_)
DigitsValue(s) ==
    IF s = <<>> THEN 0
    ELSE 10 * DigitsValue(SubSeq(s, 1, Len(s) - 1)) + DigitVal(s[Len(s)])

AllDigits(s) == s # <<>> /\ \A i \in 1..Len(s) : s[i] \in DigitSet

\* position of the decimal point of a token, 0 when it has none
DotAt(s) ==
    IF \E i \in 1..Len(s) : s[i] = "."
    THEN CHOOSE i \in 1..Len(s) : s[i] = "." /\ \A j \in 1..(i - 1) : s[j] # "."
    ELSE 0

\* the parser's numeric conversion accepts a token: digits, or digits ".0..."
\* (surrounding blanks are skipped by the C parser's conversions)
IsNumTok(tok) ==
    LET t == Strip(tok)
        d == DotAt(t)
    IN  IF d = 0 THEN AllDigits(t)
        ELSE /\ AllDigits(SubSeq(t, 1, d - 1))
             /\ d < Len(t)
             /\ \A i \in (d + 1)..Len(t) : t[i] = "0"

ParseNum(tok) ==
    LET t == Strip(tok)
        d == DotAt(t)
    IN  IF d = 0 THEN DigitsValue(t) ELSE DigitsValue(SubSeq(t, 1, d - 1))

\* str(x) of a cell value, as Series.astype(str) applies it: str(float("nan"))
\* is "nan"
ToStr(c) ==
    CASE c.k = "na" -> <<"n", "a", "n">>
      [] c.k = "num" -> Digits(c.v[1])
      [] OTHER -> c.v

---------------------------------------------------------------------------
(* Tables *)

\* A DataFrame: column labels, one dtype per column, rows of cells.
Table(columns, dtypes, rows) ==
    [columns |-> columns, dtypes |-> dtypes, rows |-> rows]

\* no table (a DataFrame always has a column: the parsers raise on empty input)
NoTable == Table(<<>>, <<>>, <<>>)

NCols(t) == Len(t.columns)
NRows(t) == Len(t.rows)

\* df[col] as a Series: the cells of the column at position j
Column(t, j) == [i \in 1..NRows(t) |-> t.rows[i][j]]

CellEq(a, b) == a.k = b.k /\ a.v = b.v

\* two rows hold equal values in every column (NaN equals NaN, as in
\* DataFrame.duplicated)
SameRow(r, s) == \A j \in 1..Len(r) : CellEq(r[j], s[j])

\* pandas' default na_values, those over the model's alphabet
NAValues == {<<>>, <<"n", "a", "n">>, <<"N", "A">>}

\* the dtype the parser infers for a column of tokens
InferDtype(toks) ==
    IF Len(toks) = 0 THEN "object"
    ELSE IF \A i \in 1..Len(toks) : toks[i] \in NAValues \/ IsNumTok(toks[i])
    THEN IF \E i \in 1..Len(toks) : toks[i] \in NAValues
         THEN "float64" ELSE "int64"
    ELSE "object"

\* pd.read_csv: every field is a token; a token of na_values is NaN, a column
\* whose other tokens all convert is numeric, any other column keeps its
\* tokens as text, untouched.
ReadCsv(header, rows) ==
    LET toks(j) == [i \in 1..Len(rows) |-> rows[i][j]]
        dtypes == [j \in 1..Len(header) |-> InferDtype(toks(j))]
        cell(tok, dt) ==
            IF tok \in NAValues THEN NA
            ELSE IF dt = "object" THEN Str(tok)
            ELSE Num(ParseNum(tok))
    IN  Table(header, dtypes,
              [i \in 1..Len(rows) |->
                  [j \in 1..Len(header) |-> cell(rows[i][j], dtypes[j])]])

\* pd.read_excel of the sheet whose cells show the tokens: a sheet's cells are
\* typed, so a number in a column that also holds text stays a number.
ReadExcel(header, rows) ==
    LET toks(j) == [i \in 1..Len(rows) |-> rows[i][j]]
        dtypes == [j \in 1..Len(header) |-> InferDtype(toks(j))]
        cell(tok) ==
            IF tok \in NAValues THEN NA
            ELSE IF IsNumTok(tok) THEN Num(ParseNum(tok))
            ELSE Str(tok)
    IN  Table(header, dtypes,
              [i \in 1..Len(rows) |->
                  [j \in 1..Len(header) |-> cell(rows[i][j])]])

---------------------------------------------------------------------------
(* cleaner.py: load_and_clean *)

\* df.columns = [str(c).strip() for c in df.columns]
StripColumns(t) ==
    Table([j \in 1..NCols(t) |-> Strip(t.columns[j])], t.dtypes, t.rows)

\* df[col] selects more than one column (and is a DataFrame, which has no
\* .dtype) when the label col occurs twice
HasDuplicateColumn(t) ==
    \E i, j \in 1..NCols(t) : i # j /\ t.columns[i] = t.columns[j]

\* df[col].astype(str).str.strip(), on one cell
TrimCell(c) == Str(Strip(ToStr(c)))

\* for col in df.columns: if df[col].dtype == "object": df[col] = ...
TrimStrings(t) ==
    Table(t.columns, t.dtypes,
          [i \in 1..NRows(t) |->
              [j \in 1..NCols(t) |->
                  IF t.dtypes[j] = "object"
                  THEN TrimCell(t.rows[i][j])
                  ELSE t.rows[i][j]]])

AllMissing(r) == \A j \in 1..Len(r) : IsNA(r[j])
NotAllMissing(r) == ~AllMissing(r)

\* df.dropna(how="all")
DropEmptyRows(t) == Table(t.columns, t.dtypes, SelectSeq(t.rows, NotAllMissing))

RECURSIVE KeepFirst(_, _)
KeepFirst(rows, kept) ==
    IF Len(rows) = 0 THEN kept
    ELSE IF \E i \in 1..Len(kept) : SameRow(kept[i], Head(rows))
    THEN KeepFirst(Tail(rows), kept)
    ELSE KeepFirst(Tail(rows), Append(kept, Head(rows)))

\* df.drop_duplicates(): keep="first"
DropDuplicates(t) == Table(t.columns, t.dtypes, KeepFirst(t.rows, <<>>))

\* the outcome of a call: the exception raised ("": none), the parser calls
\* attempted, the table returned
Outcome(exc, calls, t) == [raised |-> exc, reads |-> calls, df |-> t]

\* lines 22-37, on the parsed table
Clean(t, calls) ==
    LET named == StripColumns(t)
    IN  IF HasDuplicateColumn(named)
        THEN Outcome("AttributeError", calls, NoTable)
        ELSE Outcome("", calls,
                     DropDuplicates(DropEmptyRows(TrimStrings(named))))

\* lines 9-16: utf-8 first, latin-1 when utf-8 does not decode.  latin-1
\* decodes every byte sequence, so the cp1252 attempt of line 16 is never
\* reached.
CsvCalls(f) ==
    IF f.utf8ok THEN <<"read_csv utf-8">>
    ELSE <<"read_csv utf-8", "read_csv latin-1">>

\* the branch of lines 9, 17, 19 a file name takes
Dispatch(name) ==
    IF EndsWith(Lower(name), CsvSuffix) THEN "csv"
    ELSE IF EndsWith(Lower(name), XlsxSuffix) THEN "xlsx"
    ELSE "unsupported"

\* lines 11, 18: the table the parser of a well-formed file returns
Parsed(f) ==
    IF Dispatch(f.name) = "csv" THEN ReadCsv(f.header, f.rows)
    ELSE ReadExcel(f.header, f.rows)

LoadAndClean(f) ==
    CASE Dispatch(f.name) = "csv" ->
            IF f.wellformed
            THEN Clean(Parsed(f), CsvCalls(f))
            ELSE Outcome("ParserError", CsvCalls(f), NoTable)
      [] Dispatch(f.name) = "xlsx" ->
            IF f.wellformed
            THEN Clean(Parsed(f), <<"read_excel">>)
            ELSE Outcome("BadZipFile", <<"read_excel">>, NoTable)
      [] OTHER -> Outcome("ValueError", <<>>, NoTable)

---------------------------------------------------------------------------
(* analyzer.py: analyze_dataframe *)

\* Python's None, and a value that is present
None == <<>>
Some(x) == <<x>>

\* pandas.api.types.is_numeric_dtype
IsNumericDtype(dt) == dt \in {"int64", "float64"}

NotNA(c) == ~IsNA(c)

\* s.dropna()
DropNa(s) == SelectSeq(s, NotNA)

\* a slip: s.notna().sum(), the cells that hold a value
CountPresent(s) == Len(DropNa(s))

\* int(s.isna().sum())
RECURSIVE CountMissing(_)
CountMissing(s) ==
    IF Len(s) = 0 THEN 0
    ELSE (IF IsNA(Head(s)) THEN 1 ELSE 0) + CountMissing(Tail(s))

RECURSIVE SeqMin(_)
SeqMin(s) ==
    IF Len(s) = 1 THEN s[1].v[1]
    ELSE LET m == SeqMin(Tail(s))
         IN  IF s[1].v[1] < m THEN s[1].v[1] ELSE m

RECURSIVE SeqMax(_)
SeqMax(s) ==
    IF Len(s) = 1 THEN s[1].v[1]
    ELSE LET m == SeqMax(Tail(s))
         IN  IF s[1].v[1] > m THEN s[1].v[1] ELSE m

RECURSIVE SeqSum(_)
SeqSum(s) == IF Len(s) = 0 THEN 0 ELSE s[1].v[1] + SeqSum(Tail(s))

RECURSIVE Gcd(_, _)
Gcd(a, b) == IF b = 0 THEN a ELSE Gcd(b, a % b)

\* a quotient, as the fraction in lowest terms
Ratio(a, b) == [num |-> a \div Gcd(a, b), den |-> b \div Gcd(a, b)]

\* non_null.mean()
SeqMean(s) == Ratio(SeqSum(s), Len(s))

\* a slip: the statistics of s.fillna(0) instead of s.dropna()
NumericInfoFilled(info, s) ==
    LET filled == [i \in 1..Len(s) |-> IF IsNA(s[i]) THEN Num(0) ELSE s[i]]
    IN  [column |-> info.column, dtype |-> info.dtype, missing |-> info.missing,
         kind |-> "numeric",
         min  |-> IF Len(filled) # 0 THEN Some(SeqMin(filled)) ELSE None,
         max  |-> IF Len(filled) # 0 THEN Some(SeqMax(filled)) ELSE None,
         mean |-> IF Len(filled) # 0 THEN Some(SeqMean(filled)) ELSE None]

\* lines 15-20, added to info
NumericInfo(info, s) ==
    LET non_null == DropNa(s)
    IN  [column |-> info.column, dtype |-> info.dtype, missing |-> info.missing,
         kind |-> "numeric",
         min  |-> IF Len(non_null) # 0 THEN Some(SeqMin(non_null)) ELSE None,
         max  |-> IF Len(non_null) # 0 THEN Some(SeqMax(non_null)) ELSE None,
         mean |-> IF Len(non_null) # 0 THEN Some(SeqMean(non_null)) ELSE None]

\* .head(5)
TopN == 5

\* s.dropna().astype(str): the texts counted
Texts(s) == LET d == DropNa(s) IN [i \in 1..Len(d) |-> ToStr(d[i])]

\* the number of occurrences of text x
Occurrences(texts, x) == Cardinality({i \in 1..Len(texts) : texts[i] = x})

\* Series.value_counts(): one entry per distinct text, sorted by count,
\* largest first.  The sort is sort_values(ascending=False) with the default
\* kind "quicksort", which numpy does not make stable: the order among
\* entries of equal count depends on the numpy build and on the number of
\* entries, so every order of the ties is an outcome.
RECURSIVE CountOrders(_, _)
CountOrders(texts, keys) ==
    IF keys = {} THEN {<<>>}
    ELSE LET top == {x \in keys :
                        \A y \in keys : Occurrences(texts, y) <= Occurrences(texts, x)}
         IN  UNION {{<<[value |-> x, count |-> Occurrences(texts, x)]>> \o rest :
                        rest \in CountOrders(texts, keys \ {x})} : x \in top}

ValueCounts(texts) == CountOrders(texts, {texts[i] : i \in 1..Len(texts)})


\* a slip: the whole of value_counts(), .head(5) left out
HeadAll(vc) == vc

\* vc.head(5)
HeadN(vc) == IF Len(vc) <= TopN THEN vc ELSE SubSeq(vc, 1, TopN)

\* lines 21-25: the lists top_values can be
TopValues(s) == {HeadN(vc) : vc \in ValueCounts(Texts(s))}

\* lines 8-13
Info(t, j) ==
    [column |-> t.columns[j], dtype |-> t.dtypes[j],
     missing |-> CountMissing(Column(t, j))]

\* lines 21-25, added to info
TextInfo(info, tv) ==
    [column |-> info.column, dtype |-> info.dtype, missing |-> info.missing,
     kind |-> "text", top_values |-> tv]

\* lines 7-27: the profiles the column at position j can get
Profiles(t, j) ==
    IF IsNumericDtype(t.dtypes[j])
    THEN {NumericInfo(Info(t, j), Column(t, j))}
    ELSE {TextInfo(Info(t, j), tv) : tv \in TopValues(Column(t, j))}

\* the lists analyze_dataframe can return for the first n columns
RECURSIVE InsightsUpTo(_, _)
InsightsUpTo(t, n) ==
    IF n = 0 THEN {<<>>}
    ELSE UNION {{Append(ins, p) : p \in Profiles(t, n)} :
                   ins \in InsightsUpTo(t, n - 1)}

\* analyze_dataframe(df): s = df[col] is a DataFrame when the label occurs
\* twice, and s.dtype raises AttributeError
AnalyzeRaises(t) == HasDuplicateColumn(t)

AnalyzeDataframe(t) == InsightsUpTo(t, NCols(t))

---------------------------------------------------------------------------
(* Saving a table as CSV (DataFrame.to_csv(index=False)) *)

\* the field written for a cell: nothing for NaN, repr of the number (a
\* float64 column writes 1.0), the text itself
CsvField(c, dt) ==
    CASE c.k = "na" -> <<>>
      [] c.k = "num" -> IF dt = "float64" THEN Digits(c.v[1]) \o <<".", "0">>
                        ELSE Digits(c.v[1])
      [] OTHER -> c.v

CsvFile(name, header, rows) ==
    [name |-> name, utf8ok |-> TRUE, wellformed |-> TRUE,
     header |-> header, rows |-> rows]

ToCsv(t, name) ==
    CsvFile(name, t.columns,
            [i \in 1..NRows(t) |->
                [j \in 1..NCols(t) |-> CsvField(t.rows[i][j], t.dtypes[j])]])

---------------------------------------------------------------------------
(* The files and tables of the model *)

\* the fields of the first and of the second column of an uploaded file
FieldsA == {<<>>, <<"1">>, <<"a">>, <<" ", "a">>, <<" ">>, <<" ", "n", "a", "n">>}
FieldsB == {<<>>, <<"1">>}
Lines == {<<a, b>> : a \in FieldsA, b \in FieldsB}

\* header lines: plain, padded, and two labels equal once stripped
Headers == {<<<<"x">>, <<"y">>>>,
            <<<<" ", "x">>, <<"y", " ">>>>,
            <<<<"x">>, <<" ", "x">>>>}

Grids(n) == UNION {[1..m -> Lines] : m \in 0..n}

DataCsv == <<"d", ".", "c", "s", "v">>
DataXlsx == <<"d", ".", "x", "l", "s", "x">>
OutCsv == <<"o", "u", "t", ".", "c", "s", "v">>

NoFile == CsvFile(<<>>, <<>>, <<>>)

InitRest ==
    /\ reads = <<>>
    /\ raised = ""
    /\ insights = <<>>
    /\ df2 = NoTable
    /\ raised2 = ""
    /\ dataDir = {}
    /\ history = {}
    /\ request = [auth |-> FALSE, fault |-> "none"]
    /\ response = [status |-> 0, body |-> {}]
    /\ uid = 0

Init ==
    /\ file \in {CsvFile(n, h, g) : n \in {DataCsv, DataXlsx}, h \in Headers,
                                    g \in Grids(MaxRows)}
    /\ pc = "new"
    /\ df = NoTable
    /\ InitRest

\* df = load_and_clean(path)
CallLoadAndClean ==
    /\ pc = "new"
    /\ LET out == LoadAndClean(file)
       IN  /\ reads' = out.reads
           /\ raised' = out.raised
           /\ df' = out.df
           /\ pc' = IF out.raised = "" THEN "cleaned" ELSE "raised"
    /\ UNCHANGED <<file, insights, df2, raised2, dataDir, history, request, response, uid>>

\* insights = analyze_dataframe(df)
CallAnalyze ==
    /\ pc = "cleaned"
    /\ IF AnalyzeRaises(df)
       THEN /\ raised' = "AttributeError"
            /\ pc' = "raised"
            /\ UNCHANGED insights
       ELSE /\ insights' \in AnalyzeDataframe(df)
            /\ pc' = "analyzed"
            /\ UNCHANGED raised
    /\ UNCHANGED <<file, reads, df, df2, raised2, dataDir, history, request, response, uid>>

\* the table returned is saved as CSV and load_and_clean runs on that file
Resave ==
    /\ pc = "cleaned"
    /\ LET out == LoadAndClean(ToCsv(df, OutCsv))
       IN  /\ df2' = out.df
           /\ raised2' = out.raised
    /\ pc' = "resaved"
    /\ UNCHANGED <<file, reads, df, raised, insights, dataDir, history, request, response, uid>>

Next == CallLoadAndClean \/ CallAnalyze \/ Resave

Spec == Init /\ [][Next]_vars

---------------------------------------------------------------------------
(* analyze_dataframe on its own: the tables it is applied to *)

Letters == <<"a", "b", "c", "d", "e", "f", "g", "h">>

SeqMaxNat(s) ==
    IF Len(s) = 0 THEN 0
    ELSE CHOOSE m \in {s[i] : i \in 1..Len(s)} : \A i \in 1..Len(s) : s[i] <= m

\* The text columns of n rows, up to a renaming of the texts: 0 is a
\* missing cell, and the texts 1, 2, ... first occur in this order.
RECURSIVE TextShapes(_)
TextShapes(n) ==
    IF n = 0 THEN {<<>>}
    ELSE UNION {{Append(s, c) : c \in 0..(IF SeqMaxNat(s) < Len(Letters)
                                          THEN SeqMaxNat(s) + 1
                                          ELSE Len(Letters))} :
                   s \in TextShapes(n - 1)}

TextCellOf(c) == IF c = 0 THEN NA ELSE Str(<<Letters[c]>>)

TextTables ==
    UNION {{Table(<<<<"x">>>>, <<"object">>,
                  [i \in 1..n |-> <<TextCellOf(s[i])>>]) : s \in TextShapes(n)} :
              n \in 0..MaxLen}

NumCells == {NA, Num(1), Num(2), Num(4)}

\* the dtype of a numeric column with these cells
NumDtype(s) ==
    IF Len(s) = 0 \/ \E i \in 1..Len(s) : IsNA(s[i]) THEN "float64" ELSE "int64"

NumTables ==
    UNION {{Table(<<<<"x">>>>, <<NumDtype(s)>>, [i \in 1..n |-> <<s[i]>>]) :
               s \in [1..n -> NumCells]} : n \in 0..MaxNums}

\* tables of a text and a numeric column, also under one label
PairRows == {<<a, b>> : a \in {NA, Str(<<"a">>), Str(<<"b">>)}, b \in {NA, Num(1)}}

PairTables ==
    UNION {{Table(h, <<"object", "float64">>, g) :
               h \in {<<<<"x">>, <<"y">>>>, <<<<"x">>, <<"x">>>>},
               g \in [1..n -> PairRows]} : n \in 0..2}

InitAnalyze ==
    /\ file = NoFile
    /\ pc = "cleaned"
    /\ InitRest
    /\ df \in TextTables \cup NumTables \cup PairTables

NextAnalyze == CallAnalyze

SpecAnalyze == InitAnalyze /\ [][NextAnalyze]_vars

---------------------------------------------------------------------------
(* load_and_clean on its own: file names and undecodable or malformed files *)

FileNames ==
    {DataCsv, DataXlsx,
     <<"D", ".", "C", "S", "V">>, <<"d", ".", "C", "s", "v">>,
     <<"D", ".", "X", "L", "S", "X">>, <<".", "c", "s", "v">>,
     <<"c", "s", "v">>, <<"d", ".", "x", "l", "s">>,
     <<"d", ".", "t", "x", "t">>, <<"d", ".", "c", "s", "v", ".", "x">>,
     <<"d", ".", "x", "l", "s", "x", ".", "c">>}

InitDispatch ==
    /\ file \in [name : FileNames, utf8ok : BOOLEAN, wellformed : BOOLEAN,
                 header : Headers, rows : Grids(1)]
    /\ pc = "new"
    /\ df = NoTable
    /\ InitRest

NextDispatch == CallLoadAndClean

SpecDispatch == InitDispatch /\ [][NextDispatch]_vars

---------------------------------------------------------------------------
(* main.py: upload *)

\* the files a request with this uid writes to DATA_DIR
InputPath(id) == [uid |-> id, kind |-> "input"]
ExcelPath(id) == [uid |-> id, kind |-> "cleaned.xlsx"]
PdfPath(id) == [uid |-> id, kind |-> "report.pdf"]

ErrorResponse(code) == [status |-> code, body |-> {"detail"}]

\* lines 248-256
OkResponse ==
    [status |-> 200,
     body |-> {"id", "rows", "cols", "preview", "columns", "cleanedFile", "reportPdf"}]

\* what a request leaves: its response, DATA_DIR, the committed records
Served(resp, dir, hist) == [response |-> resp, dataDir |-> dir, history |-> hist]

\* the steps of the handler that touch the disk or the database and can fail
\* for reasons outside the program
Faults == {"none", "to_excel", "report", "commit"}

\* lines 229-246, after both exports are written
SaveRecord(id, auth, fault, dir, hist) ==
    IF auth /\ fault = "commit"
    THEN Served(ErrorResponse(500), dir, hist)
    ELSE Served(OkResponse, dir, IF auth THEN hist \cup {id} ELSE hist)

\* lines 226-227: generate_pdf_report writes pdf_path or raises
WriteReport(id, auth, fault, dir, hist) ==
    IF fault = "report"
    THEN Served(ErrorResponse(500), dir, hist)
    ELSE SaveRecord(id, auth, fault, dir \cup {PdfPath(id)}, hist)

\* lines 223-224: df.to_excel writes excel_path or raises
WriteExcel(id, auth, fault, dir, hist) ==
    IF fault = "to_excel"
    THEN Served(ErrorResponse(500), dir, hist)
    ELSE WriteReport(id, auth, fault, dir \cup {ExcelPath(id)}, hist)

\* lines 218-259: the try block; every exception becomes a 500
TryBlock(f, id, auth, fault, dir, hist) ==
    LET out == LoadAndClean(f)
    IN  IF out.raised # "" \/ AnalyzeRaises(out.df)
        THEN Served(ErrorResponse(500), dir, hist)
        ELSE WriteExcel(id, auth, fault, dir, hist)

\* lines 261-266: finally, input_path.unlink(missing_ok=True)
Finally(id, served) ==
    Served(served.response, served.dataDir \ {InputPath(id)}, served.history)

\* lines 205-266
UploadOutcome(f, id, auth, fault, dir, hist) ==
    IF Len(f.name) = 0
    THEN Served(ErrorResponse(400), dir, hist)
    ELSE IF Dispatch(f.name) = "unsupported"
    THEN Served(ErrorResponse(400), dir, hist)
    ELSE Finally(id, TryBlock(f, id, auth, fault, dir \cup {InputPath(id)}, hist))

\* the files requests upload: well-formed, not UTF-8, two labels equal once
\* stripped, malformed, under a supported, an unsupported and no file name
OneLine == <<<<<<" ", "a">>, <<"1">>>>>>

Uploads ==
    {CsvFile(n, <<<<"x">>, <<"y">>>>, OneLine) : n \in {DataCsv, DataXlsx, <<>>,
                                                   <<"d", ".", "t", "x", "t">>}}
    \cup {[CsvFile(DataCsv, <<<<"x">>, <<"y">>>>, OneLine) EXCEPT !.utf8ok = FALSE],
          [CsvFile(DataCsv, <<<<"x">>, <<"y">>>>, OneLine) EXCEPT !.wellformed = FALSE],
          CsvFile(DataCsv, <<<<"x">>, <<" ", "x">>>>, OneLine)}

InitUpload ==
    /\ file = NoFile
    /\ pc = "idle"
    /\ df = NoTable
    /\ InitRest

\* POST /upload, one request from its first line to its response.  uid stands
\* for uuid4().hex: a value no earlier request had.
Upload ==
    /\ pc \in {"idle", "responded"}
    /\ uid < MaxUploads
    /\ \E f \in Uploads, auth \in BOOLEAN, fault \in Faults :
          LET id == uid + 1
              served == UploadOutcome(f, id, auth, fault, dataDir, history)
          IN  /\ file' = f
              /\ request' = [auth |-> auth, fault |-> fault]
              /\ uid' = id
              /\ response' = served.response
              /\ dataDir' = served.dataDir
              /\ history' = served.history
    /\ pc' = "responded"
    /\ UNCHANGED <<reads, df, raised, insights, df2, raised2>>

NextUpload == Upload

SpecUpload == InitUpload /\ [][NextUpload]_vars

---------------------------------------------------------------------------
(* Properties of load_and_clean, under Spec *)

\* The cell that cell normalisation is specified to give: in a free-text
\* column the stripped string form of a value, and a missing cell stays
\* missing; any other column is untouched.
NormalCell(c, dt) ==
    IF dt = "object" /\ ~IsNA(c) THEN Str(Strip(ToStr(c))) ELSE c

\* Row r of the output can come from row i of the parsed input: it holds the
\* normalised value of every cell row i holds, whatever it holds where row i
\* has a missing text.
ComesFrom(inp, i, r) ==
    \A j \in 1..NCols(inp) :
        \/ inp.dtypes[j] = "object" /\ IsNA(inp.rows[i][j])
        \/ CellEq(r[j], NormalCell(inp.rows[i][j], inp.dtypes[j]))

\* the rows of the parsed input that hold a value
HoldingRows(inp) == {i \in 1..NRows(inp) : ~AllMissing(inp.rows[i])}

\* rows i and l of the parsed input differ in a cell once normalised
DifferNormalised(inp, i, l) ==
    \E j \in 1..NCols(inp) :
        ~CellEq(NormalCell(inp.rows[i][j], inp.dtypes[j]),
                NormalCell(inp.rows[l][j], inp.dtypes[j]))

\* C1: every row of the table load_and_clean returns is a row of the parsed
\* input with each free-text cell replaced by its stripped string form, and
\* with each missing cell still missing (never the text "nan").
C1_TextTrimmedMissingKept ==
    pc = "cleaned" =>
        \A k \in 1..NRows(df) :
            \E i \in 1..NRows(Parsed(file)) :
                \A j \in 1..NCols(df) :
                    CellEq(df.rows[k][j],
                           NormalCell(Parsed(file).rows[i][j],
                                      Parsed(file).dtypes[j]))

\* C2: the table load_and_clean returns holds no row that was all missing in
\* the parsed input (each of its rows comes from an input row that holds a
\* value), and every input row that holds a value is in it.
C2_EmptyRowsRemoved ==
    pc = "cleaned" =>
        /\ \A k \in 1..NRows(df) :
              \E i \in HoldingRows(Parsed(file)) :
                  ComesFrom(Parsed(file), i, df.rows[k])
        /\ \A i \in HoldingRows(Parsed(file)) :
              \E k \in 1..NRows(df) : ComesFrom(Parsed(file), i, df.rows[k])

\* C3: the table load_and_clean returns has no two equal rows, its rows are
\* in input order, and two input rows that differ in a cell once trimmed are
\* both kept (as two rows of the output).
C3_DuplicatesRemoved ==
    pc = "cleaned" =>
        /\ \A k, l \in 1..NRows(df) : k # l => ~SameRow(df.rows[k], df.rows[l])
        /\ \A k, l \in 1..NRows(df) :
              k < l =>
                  \E i, m \in 1..NRows(Parsed(file)) :
                      /\ i < m
                      /\ ComesFrom(Parsed(file), i, df.rows[k])
                      /\ ComesFrom(Parsed(file), m, df.rows[l])
        /\ \A i, m \in HoldingRows(Parsed(file)) :
              DifferNormalised(Parsed(file), i, m) =>
                  \E k, l \in 1..NRows(df) :
                      /\ k # l
                      /\ ComesFrom(Parsed(file), i, df.rows[k])
                      /\ ComesFrom(Parsed(file), m, df.rows[l])

\* C4: every well-formed file, also one with two headers that are equal once
\* stripped, is loaded and analysed without an exception, and the analysis
\* holds one profile per column, in column order, under the column's name.
C4_AnalysisNeverRaises ==
    /\ pc # "raised"
    /\ pc = "analyzed" =>
          /\ Len(insights) = NCols(df)
          /\ \A j \in 1..NCols(df) : insights[j].column = df.columns[j]

\* C8: load_and_clean on its own output saved as CSV returns the same columns
\* and the same rows: the second pass removes no row and changes none.
C8_Idempotent ==
    pc = "resaved" =>
        /\ raised2 = ""
        /\ df2.columns = df.columns
        /\ NRows(df2) = NRows(df)
        /\ \A k \in 1..NRows(df) : SameRow(df2.rows[k], df.rows[k])

---------------------------------------------------------------------------
(* Properties of analyze_dataframe, under SpecAnalyze *)

\* the rows of df whose cell in column j is missing, and those that hold one
MissingAt(j) == {i \in 1..NRows(df) : IsNA(df.rows[i][j])}
PresentAt(j) == {i \in 1..NRows(df) : ~IsNA(df.rows[i][j])}

\* the number in row i of column j
NumberAt(i, j) == df.rows[i][j].v[1]

RECURSIVE SumAt(_, _)
SumAt(rows, j) ==
    IF rows = {} THEN 0
    ELSE LET i == CHOOSE r \in rows : TRUE
         IN  NumberAt(i, j) + SumAt(rows \ {i}, j)

\* C5: the profile of every column, of either kind, reports as `missing` the
\* number of missing cells of that column of the table analysed.
C5_MissingCounted ==
    pc = "analyzed" =>
        \A j \in 1..NCols(df) : insights[j].missing = Cardinality(MissingAt(j))

\* C5 happens: a text column and a numeric column analysed, each with missing
\* cells and with values.
C5_Witness ==
    /\ pc = "analyzed"
    /\ NCols(df) = 2
    /\ \A j \in 1..2 : MissingAt(j) # {} /\ PresentAt(j) # {}
    /\ insights[1].kind = "text" /\ insights[2].kind = "numeric"

\* C6: the profile of a numeric column reports the least and the greatest of
\* the non-missing values and their mean; with no non-missing value (also in
\* a table of no rows) the three are None, neither 0 nor NaN.
C6_NumericStats ==
    pc = "analyzed" =>
        \A j \in 1..NCols(df) :
            insights[j].kind = "numeric" =>
                IF PresentAt(j) = {}
                THEN /\ insights[j].min = None
                     /\ insights[j].max = None
                     /\ insights[j].mean = None
                ELSE /\ \E i \in PresentAt(j) : insights[j].min = Some(NumberAt(i, j))
                     /\ \A i \in PresentAt(j) : insights[j].min[1] <= NumberAt(i, j)
                     /\ \E i \in PresentAt(j) : insights[j].max = Some(NumberAt(i, j))
                     /\ \A i \in PresentAt(j) : insights[j].max[1] >= NumberAt(i, j)
                     /\ Len(insights[j].mean) = 1
                     /\ insights[j].mean[1].den > 0
                     /\ insights[j].mean[1].num * Cardinality(PresentAt(j))
                            = insights[j].mean[1].den * SumAt(PresentAt(j), j)

\* C6 happens: a numeric column analysed that has missing cells and two
\* different values, its mean not a whole number.
C6_Witness ==
    /\ pc = "analyzed"
    /\ insights[1].kind = "numeric"
    /\ MissingAt(1) # {}
    /\ insights[1].min # insights[1].max
    /\ insights[1].mean[1].den > 1

\* the texts of column j, and the rows that hold text x
TextsAt(j) == {ToStr(df.rows[i][j]) : i \in PresentAt(j)}
RowsOf(x, j) == {i \in PresentAt(j) : ToStr(df.rows[i][j]) = x}
FirstRowOf(x, j) == CHOOSE i \in RowsOf(x, j) : \A m \in RowsOf(x, j) : i <= m

\* the texts top_values lists
Listed(tv) == {tv[k].value : k \in 1..Len(tv)}

\* what C7 says of top_values apart from the order of equal counts
TopValuesRight(tv, j) ==
    /\ Len(tv) <= 5
    /\ \A k, l \in 1..Len(tv) : k # l => tv[k].value # tv[l].value
    /\ \A k \in 1..Len(tv) :
          /\ tv[k].value \in TextsAt(j)
          /\ tv[k].count = Cardinality(RowsOf(tv[k].value, j))
    /\ \A k, l \in 1..Len(tv) : k < l => tv[k].count >= tv[l].count
    /\ \A x \in TextsAt(j) \ Listed(tv) :
          /\ Len(tv) > 0
          /\ \A k \in 1..Len(tv) : Cardinality(RowsOf(x, j)) <= tv[k].count
    /\ TextsAt(j) = {} => tv = <<>>

\* entries of equal count are listed in the order of their first rows
TiesInFirstOccurrenceOrder(tv, j) ==
    \A k, l \in 1..Len(tv) :
        (k < l /\ tv[k].count = tv[l].count) =>
            FirstRowOf(tv[k].value, j) < FirstRowOf(tv[l].value, j)

---------------------------------------------------------------------------
(* The format dispatch of load_and_clean, under SpecDispatch *)

\* two characters are the same letter, whatever their case
SameLetter(a, b) ==
    \/ a = b
    \/ <<a, b>> \in {<<"C", "c">>, <<"S", "s">>, <<"V", "v">>,
                     <<"X", "x">>, <<"L", "l">>}

\* the name ends in the suffix, compared case-insensitively
EndsNoCase(name, suffix) ==
    /\ Len(name) >= Len(suffix)
    /\ \A i \in 1..Len(suffix) :
          SameLetter(name[Len(name) - Len(suffix) + i], suffix[i])

\* C9: a file whose name ends, in any case, in neither .csv nor .xlsx makes
\* load_and_clean raise the unsupported-type ValueError with no read of the
\* file attempted and no table returned; a name ending in .csv goes to
\* read_csv and a name ending in .xlsx to read_excel, and to nothing else.
C9_FormatDispatch ==
    pc # "new" =>
        /\ (~EndsNoCase(file.name, CsvSuffix) /\ ~EndsNoCase(file.name, XlsxSuffix))
              => (raised = "ValueError" /\ reads = <<>> /\ df = NoTable)
        /\ EndsNoCase(file.name, CsvSuffix)
              => /\ raised # "ValueError"
                 /\ reads # <<>>
                 /\ \A i \in 1..Len(reads) :
                       reads[i] \in {"read_csv utf-8", "read_csv latin-1"}
        /\ EndsNoCase(file.name, XlsxSuffix)
              => (raised # "ValueError" /\ reads = <<"read_excel">>)

\* C9 happens: a well-formed file named d.csv.x has been refused unread.
C9_Witness ==
    /\ pc = "raised"
    /\ file.name = <<"d", ".", "c", "s", "v", ".", "x">>
    /\ file.wellformed
    /\ raised = "ValueError"
    /\ reads = <<>>

---------------------------------------------------------------------------
(* The upload handler, under SpecUpload *)

\* the files the request with this uid writes
RequestFiles(id) == {InputPath(id), ExcelPath(id), PdfPath(id)}

\* C10: a request that ends in an error carries no preview or profile data
\* and leaves none of its files in DATA_DIR and no history record, whichever
\* step failed; a request that succeeds leaves no raw input copy.
C10_FailedUploadLeavesNothing ==
    pc = "responded" =>
        /\ response.status # 200 =>
              /\ response.body \cap {"rows", "cols", "preview", "columns"} = {}
              /\ dataDir \cap RequestFiles(uid) = {}
              /\ uid \notin history
        /\ response.status = 200 => InputPath(uid) \notin dataDir

===========================================================================
